---- MODULE Spec2Model ----
(***************************************************************************)
(* Model of QModbusServer / QModbusServerPrivate (qmodbusserver.cpp): the  *)
(* four register tables, the element and range accessors, setMap and the   *)
(* request dispatcher with its three coil handlers.                        *)
(***************************************************************************)
EXTENDS Integers, Sequences, FiniteSets, TLC

\* ------------------------------------------------------------------ bounds
MaxStart == 1      \* largest startAddress of a configured table
MaxCount == 2      \* largest valueCount of a configured table
MaxLen == 2      \* longest value list handed to writeRange

\* ------------------------------------------------------- integer widths
\* int + uint is computed as uint (valueCount() is unsigned); a 32-bit word is
\* held here as the int with the same bits, so sums need no reduction at the
\* magnitudes used, and only comparisons see the difference: ULess(a, b) is
\* a < b with both words read as unsigned.
ULess(a, b) ==
    IF (a >= 0) = (b >= 0) THEN a < b ELSE a >= 0
U16(x) == x % 65536
U8(x)  == x % 256

Min(a, b) == IF a < b THEN a ELSE b

\* ------------------------------------------------------- QModbusDataUnit
RegisterType ==
    {"Invalid", "DiscreteInputs", "Coils", "InputRegisters", "HoldingRegisters"}
ValidTypes == RegisterType \ {"Invalid"}

\* A data unit: register type, start address and the stored words; values is
\* the QVector, element i of the vector is values[i + 1].
QModbusDataUnit(type, start, vals) ==
    [type |-> type, startAddress |-> start, values |-> vals]

\* The default-constructed unit: no type, start address unset, no values.
DefaultUnit == QModbusDataUnit("Invalid", -1, << >>)

isValid(u) == u.type # "Invalid"
valueCount(u) == Len(u.values)

\* QVector::value(i): the element, or a default-constructed one out of range.
value(u, index) ==
    IF index >= 0 /\ index < Len(u.values) THEN u.values[index + 1] ELSE 0

\* QModbusDataUnit::setValue(index, v): ignored when index is past the end.
setValue(u, index, v) ==
    IF Len(u.values) = 0 \/ index >= Len(u.values)
    THEN u
    ELSE [u EXCEPT !.values[index + 1] = v]

setValues(u, vals) == [u EXCEPT !.values = vals]

\* QVector::mid(pos, len) for pos >= 0 and len >= 0: clipped to the vector.
mid(s, pos, len) ==
    IF pos >= Len(s) THEN << >>
    ELSE SubSeq(s, pos + 1, Min(pos + len, Len(s)))

\* ------------------------------------------------------------------ state
VARIABLES m_discreteInputs, m_coils, m_inputRegisters, m_holdingRegisters,
          call, pre

vars == << m_discreteInputs, m_coils, m_inputRegisters, m_holdingRegisters,
           call, pre >>

\* The register map as one record, kind by kind.
Tables ==
    [DiscreteInputs   |-> m_discreteInputs,
     Coils            |-> m_coils,
     InputRegisters   |-> m_inputRegisters,
     HoldingRegisters |-> m_holdingRegisters]

\* The switch on the register type in the four accessors.
unitOf(table) ==
    CASE table = "DiscreteInputs"   -> m_discreteInputs
      [] table = "Coils"            -> m_coils
      [] table = "InputRegisters"   -> m_inputRegisters
      [] table = "HoldingRegisters" -> m_holdingRegisters

\* ------------------------------------------------------- element access
\* QModbusServer::data(table, address, data): ret is the return value, word
\* the value stored through the out pointer (-1: the pointer is not written).
data(table, address) ==
    IF table = "Invalid" THEN [ret |-> FALSE, word |-> -1]
    ELSE LET unit == unitOf(table) IN
         IF \/ ~isValid(unit)
            \/ address < unit.startAddress
            \/ ~ULess(address, unit.startAddress + valueCount(unit))
         THEN [ret |-> FALSE, word |-> -1]
         ELSE [ret |-> TRUE, word |-> value(unit, address)]

\* setData with the end of the table tested by > instead of >=.
setData_pastEndAccepted(table, address, d) ==
    IF table = "Invalid" THEN [ret |-> FALSE, unit |-> DefaultUnit]
    ELSE LET unit == unitOf(table) IN
         IF \/ ~isValid(unit)
            \/ address < unit.startAddress
            \/ ULess(unit.startAddress + valueCount(unit), address)
         THEN [ret |-> FALSE, unit |-> unit]
         ELSE [ret |-> TRUE, unit |-> setValue(unit, address, d)]

\* QModbusServer::setData(table, address, data): ret is the return value,
\* unit the table of that kind after the call.
setData(table, address, d) ==
    IF table = "Invalid" THEN [ret |-> FALSE, unit |-> DefaultUnit]
    ELSE LET unit == unitOf(table) IN
         IF \/ ~isValid(unit)
            \/ address < unit.startAddress
            \/ ~ULess(address, unit.startAddress + valueCount(unit))
         THEN [ret |-> FALSE, unit |-> unit]
         ELSE [ret |-> TRUE, unit |-> setValue(unit, address, d)]

\* --------------------------------------------------------- range access
\* data(QModbusDataUnit *) that keeps the caller's count when the start
\* address is negative instead of handing back the whole table.
dataUnit_countKept(newData) ==
    IF newData.type = "Invalid" THEN [ret |-> FALSE, unit |-> newData]
    ELSE LET current == unitOf(newData.type)
             internalRangeEndAddress ==
                 current.startAddress + valueCount(current) - 1
             rangeEndAddress ==
                 newData.startAddress + valueCount(newData) - 1
         IN  IF newData.startAddress < 0
             THEN [ret |-> TRUE,
                   unit |-> setValues(current,
                                mid(current.values, 0, valueCount(newData)))]
             ELSE IF \/ newData.startAddress < current.startAddress
                     \/ newData.startAddress > internalRangeEndAddress
             THEN [ret |-> FALSE, unit |-> newData]
             ELSE IF \/ rangeEndAddress < current.startAddress
                     \/ rangeEndAddress > internalRangeEndAddress
             THEN [ret |-> FALSE, unit |-> newData]
             ELSE [ret |-> TRUE,
                   unit |-> setValues(newData,
                                mid(current.values, newData.startAddress,
                                    valueCount(newData)))]

\* QModbusServer::data(QModbusDataUnit *newData): ret is the return value,
\* unit is *newData after the call.
dataUnit(newData) ==
    IF newData.type = "Invalid" THEN [ret |-> FALSE, unit |-> newData]
    ELSE LET current == unitOf(newData.type)
             internalRangeEndAddress ==
                 current.startAddress + valueCount(current) - 1
             rangeEndAddress ==
                 newData.startAddress + valueCount(newData) - 1
         IN  IF newData.startAddress < 0
             THEN [ret |-> TRUE, unit |-> current]
             ELSE IF \/ newData.startAddress < current.startAddress
                     \/ newData.startAddress > internalRangeEndAddress
             THEN [ret |-> FALSE, unit |-> newData]
             ELSE IF \/ rangeEndAddress < current.startAddress
                     \/ rangeEndAddress > internalRangeEndAddress
             THEN [ret |-> FALSE, unit |-> newData]
             ELSE [ret |-> TRUE,
                   unit |-> setValues(newData,
                                mid(current.values, newData.startAddress,
                                    valueCount(newData)))]

\* The loop of setData(const QModbusDataUnit &): i runs from the range start
\* to its end and each step stores newData.value(i - start) with setValue(i).
RECURSIVE setDataLoop(_, _, _)
setDataLoop(current, newData, i) ==
    IF i < newData.startAddress + valueCount(newData)
    THEN setDataLoop(setValue(current, i,
                              value(newData, i - newData.startAddress)),
                     newData, i + 1)
    ELSE current

\* QModbusServer::setData(const QModbusDataUnit &newData).
setDataUnit(newData) ==
    IF newData.type = "Invalid" THEN [ret |-> FALSE, unit |-> DefaultUnit]
    ELSE LET current == unitOf(newData.type)
             internalRangeEndAddress ==
                 current.startAddress + valueCount(current) - 1
             rangeEndAddress ==
                 newData.startAddress + valueCount(newData) - 1
         IN  IF ~isValid(current)
             THEN [ret |-> FALSE, unit |-> current]
             ELSE IF \/ newData.startAddress < current.startAddress
                     \/ newData.startAddress > internalRangeEndAddress
             THEN [ret |-> FALSE, unit |-> current]
             ELSE IF \/ rangeEndAddress < current.startAddress
                     \/ rangeEndAddress > internalRangeEndAddress
             THEN [ret |-> FALSE, unit |-> current]
             ELSE [ret |-> TRUE,
                   unit |-> setDataLoop(current, newData,
                                        newData.startAddress)]

\* ---------------------------------------------------------------- setMap
\* QMap::value(key): the stored unit, or a default-constructed one.
mapValue(map, type) ==
    IF type \in DOMAIN map THEN map[type] ELSE DefaultUnit

\* setMap that merges: a kind the map leaves out keeps its old table.
setMap_missingKept(map) ==
    [ret              |-> TRUE,
     DiscreteInputs   |-> IF "DiscreteInputs" \in DOMAIN map
                          THEN map["DiscreteInputs"] ELSE m_discreteInputs,
     Coils            |-> IF "Coils" \in DOMAIN map
                          THEN map["Coils"] ELSE m_coils,
     InputRegisters   |-> IF "InputRegisters" \in DOMAIN map
                          THEN map["InputRegisters"] ELSE m_inputRegisters,
     HoldingRegisters |-> IF "HoldingRegisters" \in DOMAIN map
                          THEN map["HoldingRegisters"] ELSE m_holdingRegisters]

\* QModbusServerPrivate::setMap: the four members after the call.
setMap(map) ==
    [ret              |-> TRUE,
     DiscreteInputs   |-> mapValue(map, "DiscreteInputs"),
     Coils            |-> mapValue(map, "Coils"),
     InputRegisters   |-> mapValue(map, "InputRegisters"),
     HoldingRegisters |-> mapValue(map, "HoldingRegisters")]

\* ------------------------------------------------------------------ PDUs
\* Function codes of QModbusPdu::FunctionCode, by their enumerator names.
FunctionCode ==
    [ReadCoils |-> 1, ReadDiscreteInputs |-> 2, ReadHoldingRegisters |-> 3,
     ReadInputRegisters |-> 4, WriteSingleCoil |-> 5,
     WriteSingleRegister |-> 6, ReadExceptionStatus |-> 7, Diagnostics |-> 8,
     GetCommEventCounter |-> 11, GetCommEventLog |-> 12,
     WriteMultipleCoils |-> 15, WriteMultipleRegisters |-> 16,
     ReportServerId |-> 17, ReadFileRecord |-> 20, WriteFileRecord |-> 21,
     MaskWriteRegister |-> 22, ReadWriteMultipleRegisters |-> 23,
     ReadFifoQueue |-> 24, EncapsulatedInterfaceTransport |-> 43]

\* Exception codes of QModbusExceptionResponse.
ExceptionCode ==
    [IllegalFunction |-> 1, IllegalDataAddress |-> 2, IllegalDataValue |-> 3]

\* A PDU is a function code and its payload bytes.
Pdu(fc, bytes) == [functionCode |-> fc, data |-> bytes]

\* 16-bit fields travel high byte first.
encode16(x) == << x \div 256, x % 256 >>
decode16(d, pos) == d[pos + 1] * 256 + d[pos + 2]

\* What an output variable of decodeData can hold when the payload ends
\* before its field: the handlers declare them without an initial value.
Undecoded == {0, 1}

\* QModbusPdu::decodeData, field by field: the values the 16-bit (8-bit)
\* output variable for the field at byte offset pos can hold afterwards.
field16(d, pos) == IF Len(d) >= pos + 2 THEN { decode16(d, pos) } ELSE Undecoded
field8(d, pos) == IF Len(d) >= pos + 1 THEN { d[pos + 1] } ELSE Undecoded

\* QModbusExceptionResponse(fc, ec): function code with bit 7 set, one byte.
QModbusExceptionResponse(fc, ec) ==
    Pdu(IF fc < 128 THEN fc + 128 ELSE fc, << ec >>)

\* QModbusResponse(fc, a, b) with two 16-bit fields.
QModbusResponse2(fc, a, b) == Pdu(fc, encode16(a) \o encode16(b))

\* QModbusResponse(fc, byteCount, bytes).
QModbusResponseBytes(fc, byteCount, bytes) == Pdu(fc, << byteCount >> \o bytes)

isException(pdu) == pdu.functionCode >= 128

\* Bit k of a byte, and the byte made of eight bits (bit 0 first), as
\* std::bitset<8> reads and builds them.
bitOf(byte, k) == (byte \div (2 ^ k)) % 2
RECURSIVE to_ulong(_)
to_ulong(bits) ==
    IF bits = << >> THEN 0 ELSE Head(bits) + 2 * to_ulong(Tail(bits))

\* A quint16 assigned to a bit: any non-zero word is a set bit.
toBit(w) == IF w # 0 THEN 1 ELSE 0

\* ------------------------------------------------------ handler outcomes
\* What a handler leaves behind: the response, the coils table, whether the
\* call returned or the process was stopped by a failed bounds assertion,
\* whether an access fell outside the vector's storage, and the dataWritten
\* signals emitted on the way (no handler has an emit statement).
Outcome(response, coils, oob) ==
    [response |-> response, coils |-> coils, outcome |-> "returned",
     oob |-> oob, dataWritten |-> << >>]
Aborted ==
    [response |-> Pdu(0, << >>), coils |-> m_coils, outcome |-> "aborted",
     oob |-> TRUE, dataWritten |-> << >>]

\* QModbusServer::processCustomRequest, the default implementation.
processCustomRequest(request) ==
    { Outcome(QModbusExceptionResponse(request.functionCode,
                                       ExceptionCode.IllegalFunction),
              m_coils, FALSE) }

\* What a read past the end of a vector's storage can bring back.
Garbage == {0, 1}

\* The packing loop of processReadCoilsRequest: byte i is built from
\* data[8i] .. data[8i + 7], bit 0 first.
packBytes(words, byteCount) ==
    [i \in 1..byteCount |->
        to_ulong([k \in 1..8 |-> toBit(words[8 * (i - 1) + k])])]

\* The read handler with the address check ahead of the quantity check.
readCoils_addressFirst(request, address, numberOfCoils) ==
    LET fc == request.functionCode
    IN
    IF \/ m_coils.startAddress > address
       \/ ULess(m_coils.startAddress + valueCount(m_coils),
                address + numberOfCoils)
    THEN { Outcome(QModbusExceptionResponse(fc,
                       ExceptionCode.IllegalDataAddress), m_coils, FALSE) }
    ELSE IF numberOfCoils < 1 \/ numberOfCoils > 2000
    THEN { Outcome(QModbusExceptionResponse(fc, ExceptionCode.IllegalDataValue),
                   m_coils, FALSE) }
    ELSE
    LET range     == mid(m_coils.values, address, numberOfCoils)
        padded    == (Len(range) % 8) # 0
        byteCount == IF padded THEN U8(U8(numberOfCoils \div 8) + 1)
                               ELSE U8(numberOfCoils \div 8)
        \* resize(byteCount * 8), then insert the pad words at numberOfCoils
        resized   == range \o [i \in 1..(byteCount * 8 - Len(range)) |-> 0]
        dataPad   == resized \o [i \in 1..(byteCount * 8 - numberOfCoils) |-> 0]
        missing   == byteCount * 8 - Len(range)
    IN
    IF padded
    THEN { Outcome(QModbusResponseBytes(fc, byteCount,
                                        packBytes(dataPad, byteCount)),
                   m_coils, FALSE) }
    ELSE IF missing <= 0
    THEN { Outcome(QModbusResponseBytes(fc, byteCount,
                                        packBytes(range, byteCount)),
                   m_coils, FALSE) }
    ELSE \* data[address++] runs past the end of data
         { Aborted } \cup
         { Outcome(QModbusResponseBytes(fc, byteCount,
                       packBytes(range \o [i \in 1..missing |-> g], byteCount)),
                   m_coils, TRUE) : g \in Garbage }

\* QModbusServerPrivate::processReadCoilsRequest after decodeData, with the
\* values its two variables hold.
readCoils(request, address, numberOfCoils) ==
    LET fc == request.functionCode
    IN
    IF numberOfCoils < 1 \/ numberOfCoils > 2000
    THEN { Outcome(QModbusExceptionResponse(fc, ExceptionCode.IllegalDataValue),
                   m_coils, FALSE) }
    ELSE IF \/ m_coils.startAddress > address
            \/ ULess(m_coils.startAddress + valueCount(m_coils),
                     address + numberOfCoils)
    THEN { Outcome(QModbusExceptionResponse(fc,
                       ExceptionCode.IllegalDataAddress), m_coils, FALSE) }
    ELSE
    LET range     == mid(m_coils.values, address, numberOfCoils)
        padded    == (Len(range) % 8) # 0
        byteCount == IF padded THEN U8(U8(numberOfCoils \div 8) + 1)
                               ELSE U8(numberOfCoils \div 8)
        \* resize(byteCount * 8), then insert the pad words at numberOfCoils
        resized   == range \o [i \in 1..(byteCount * 8 - Len(range)) |-> 0]
        dataPad   == resized \o [i \in 1..(byteCount * 8 - numberOfCoils) |-> 0]
        missing   == byteCount * 8 - Len(range)
    IN
    IF padded
    THEN { Outcome(QModbusResponseBytes(fc, byteCount,
                                        packBytes(dataPad, byteCount)),
                   m_coils, FALSE) }
    ELSE IF missing <= 0
    THEN { Outcome(QModbusResponseBytes(fc, byteCount,
                                        packBytes(range, byteCount)),
                   m_coils, FALSE) }
    ELSE \* data[address++] runs past the end of data
         { Aborted } \cup
         { Outcome(QModbusResponseBytes(fc, byteCount,
                       packBytes(range \o [i \in 1..missing |-> g], byteCount)),
                   m_coils, TRUE) : g \in Garbage }

\* QModbusServerPrivate::processReadCoilsRequest.
processReadCoilsRequest(request) ==
    UNION { readCoils(request, address, numberOfCoils) :
              address \in field16(request.data, 0),
              numberOfCoils \in field16(request.data, 2) }

\* The single-write handler on a vector that grows to hold data[address].
writeSingleCoil_grows(request, address, val) ==
    LET fc == request.functionCode
    IN
    IF val # 0 /\ val # 65280
    THEN { Outcome(QModbusExceptionResponse(fc, ExceptionCode.IllegalDataValue),
                   m_coils, FALSE) }
    ELSE IF \/ m_coils.startAddress > address
            \/ ULess(m_coils.startAddress + valueCount(m_coils), address)
    THEN { Outcome(QModbusExceptionResponse(fc,
                       ExceptionCode.IllegalDataAddress), m_coils, FALSE) }
    ELSE IF address < Len(m_coils.values)
    THEN { Outcome(QModbusResponse2(fc, address, val),
                   setValues(m_coils,
                             [m_coils.values EXCEPT ![address + 1] = val]),
                   FALSE) }
    ELSE { Outcome(QModbusResponse2(fc, address, val),
                   setValues(m_coils,
                             m_coils.values
                                \o [i \in 1..(address - Len(m_coils.values)) |-> 0]
                                \o << val >>),
                   FALSE) }

\* QModbusServerPrivate::processWriteSingleCoilRequest after decodeData.
writeSingleCoil(request, address, val) ==
    LET fc == request.functionCode
    IN
    IF val # 0 /\ val # 65280
    THEN { Outcome(QModbusExceptionResponse(fc, ExceptionCode.IllegalDataValue),
                   m_coils, FALSE) }
    ELSE IF \/ m_coils.startAddress > address
            \/ ULess(m_coils.startAddress + valueCount(m_coils), address)
    THEN { Outcome(QModbusExceptionResponse(fc,
                       ExceptionCode.IllegalDataAddress), m_coils, FALSE) }
    ELSE IF address < Len(m_coils.values)
    THEN { Outcome(QModbusResponse2(fc, address, val),
                   setValues(m_coils,
                             [m_coils.values EXCEPT ![address + 1] = val]),
                   FALSE) }
    ELSE \* data[address] lies past the end of data
         { Aborted, Outcome(QModbusResponse2(fc, address, val), m_coils, TRUE) }

\* QModbusServerPrivate::processWriteSingleCoilRequest.
processWriteSingleCoilRequest(request) ==
    UNION { writeSingleCoil(request, address, val) :
              address \in field16(request.data, 0),
              val \in field16(request.data, 2) }

\* The inner loop of processWriteMultipleCoilsRequest for one byte:
\* for (; currentBit >= 0; --currentBit) values[--coil] = currentByte[currentBit].
RECURSIVE writeByte(_, _, _)
writeByte(st, currentByte, currentBit) ==
    IF currentBit < 0 THEN st
    ELSE LET coil == U16(st.coil - 1) IN
         writeByte([values |-> IF coil < Len(st.values)
                               THEN [st.values EXCEPT
                                        ![coil + 1] = bitOf(currentByte, currentBit)]
                               ELSE st.values,
                    coil   |-> coil,
                    oob    |-> st.oob \/ coil >= Len(st.values)],
                   currentByte, currentBit - 1)

\* The foreach over the reversed payload bytes.
RECURSIVE writeBytes(_, _, _)
writeBytes(st, bytes, currentBit) ==
    IF bytes = << >> THEN st
    ELSE writeBytes(writeByte(st, Head(bytes), currentBit - 1), Tail(bytes), 8)

Reverse(s) == [i \in 1..Len(s) |-> s[Len(s) + 1 - i]]

\* The multiple-write handler without the comparison of the byte count.
writeMultipleCoils_noByteCount(request, address, numberOfCoils, byteCount) ==
    LET fc            == request.functionCode
        expectedBytes == IF numberOfCoils % 8 # 0
                         THEN U8(U8(numberOfCoils \div 8) + 1)
                         ELSE U8(numberOfCoils \div 8)
    IN
    IF numberOfCoils < 1 \/ numberOfCoils > 1968
    THEN { Outcome(QModbusExceptionResponse(fc, ExceptionCode.IllegalDataValue),
                   m_coils, FALSE) }
    ELSE IF \/ m_coils.startAddress > address
            \/ ULess(m_coils.startAddress + valueCount(m_coils),
                     address + numberOfCoils)
    THEN { Outcome(QModbusExceptionResponse(fc,
                       ExceptionCode.IllegalDataAddress), m_coils, FALSE) }
    ELSE
    LET payload == mid(request.data, 5, Len(request.data))
        bytes   == Reverse(payload)
        st      == writeBytes([values |-> m_coils.values,
                               coil   |-> U16(address + numberOfCoils),
                               oob    |-> FALSE],
                              bytes, 8 - ((byteCount * 8) - numberOfCoils))
        done    == Outcome(QModbusResponse2(fc, address, numberOfCoils),
                           setValues(m_coils, st.values), st.oob)
    IN IF st.oob THEN { Aborted, done } ELSE { done }

\* QModbusServerPrivate::processWriteMultipleCoilsRequest after decodeData.
writeMultipleCoils(request, address, numberOfCoils, byteCount) ==
    LET fc            == request.functionCode
        expectedBytes == IF numberOfCoils % 8 # 0
                         THEN U8(U8(numberOfCoils \div 8) + 1)
                         ELSE U8(numberOfCoils \div 8)
    IN
    IF numberOfCoils < 1 \/ numberOfCoils > 1968 \/ expectedBytes # byteCount
    THEN { Outcome(QModbusExceptionResponse(fc, ExceptionCode.IllegalDataValue),
                   m_coils, FALSE) }
    ELSE IF \/ m_coils.startAddress > address
            \/ ULess(m_coils.startAddress + valueCount(m_coils),
                     address + numberOfCoils)
    THEN { Outcome(QModbusExceptionResponse(fc,
                       ExceptionCode.IllegalDataAddress), m_coils, FALSE) }
    ELSE
    LET payload == mid(request.data, 5, Len(request.data))
        bytes   == Reverse(payload)
        st      == writeBytes([values |-> m_coils.values,
                               coil   |-> U16(address + numberOfCoils),
                               oob    |-> FALSE],
                              bytes, 8 - ((byteCount * 8) - numberOfCoils))
        done    == Outcome(QModbusResponse2(fc, address, numberOfCoils),
                           setValues(m_coils, st.values), st.oob)
    IN IF st.oob THEN { Aborted, done } ELSE { done }

\* QModbusServerPrivate::processWriteMultipleCoilsRequest.
processWriteMultipleCoilsRequest(request) ==
    UNION { writeMultipleCoils(request, address, numberOfCoils, byteCount) :
              address \in field16(request.data, 0),
              numberOfCoils \in field16(request.data, 2),
              byteCount \in field8(request.data, 4) }

\* QModbusServerPrivate::processRequest: the switch on the function code.
processRequest(request) ==
    LET fc == request.functionCode IN
    CASE fc = FunctionCode.ReadCoils -> processReadCoilsRequest(request)
      [] fc \in { FunctionCode.ReadDiscreteInputs,
                  FunctionCode.ReadHoldingRegisters,
                  FunctionCode.ReadInputRegisters,
                  FunctionCode.WriteSingleCoil }
            -> processWriteSingleCoilRequest(request)
      [] fc \in { FunctionCode.WriteSingleRegister,
                  FunctionCode.ReadExceptionStatus,
                  FunctionCode.Diagnostics,
                  FunctionCode.GetCommEventCounter,
                  FunctionCode.GetCommEventLog,
                  FunctionCode.WriteMultipleCoils }
            -> processWriteMultipleCoilsRequest(request)
      [] OTHER -> processCustomRequest(request)

\* ----------------------------------------------------------------- inputs
MaxAddr == MaxStart + MaxCount
Addrs == 0..MaxAddr
Words == {0, 1, 65280}
ByteVals == {2, 5}

Zeros(n) == [i \in 1..n |-> 0]

\* The maps handed to setMap: no kind, one kind, or Coils and one other
\* kind configured, each with a start address, a value count and all values
\* zero.
Maps ==
    { [t \in S |-> QModbusDataUnit(t, st, Zeros(c))] :
        S \in { K \in SUBSET ValidTypes :
                  \/ Cardinality(K) <= 1
                  \/ Cardinality(K) = 2 /\ "Coils" \in K },
        st \in 0..MaxStart, c \in 0..MaxCount }

\* The units handed to data(QModbusDataUnit *): type, start address, count.
ReadUnits ==
    { QModbusDataUnit(t, st, Zeros(c)) :
        t \in RegisterType, st \in -1..MaxAddr, c \in 0..(MaxLen + 1) }

\* The units handed to setData(const QModbusDataUnit &): up to MaxLen
\* non-zero words, neighbours different so that a misplaced word shows.
WriteUnits ==
    { QModbusDataUnit(t, st, [i \in 1..k |-> IF i % 2 = 1 THEN 1 ELSE 65280]) :
        t \in RegisterType, st \in Addrs, k \in 0..MaxLen }

\* Request payloads: address and quantity or value, and for the multiple
\* write the byte count and that many data bytes.
Quantities == 0..(MaxCount + 1) \cup {8, 2001}
Payload4 ==
    { encode16(a) \o encode16(x) : a \in Addrs, x \in Quantities \cup Words }
Payload5 ==
    { encode16(a) \o encode16(n) \o << bc >> \o bytes :
        a \in Addrs, n \in 0..(MaxCount + 1),
        bc \in 0..1, bytes \in [1..1 -> ByteVals] \cup { << >> } }

\* Multiple writes whose quantity is past the limit of 1968 (the second one
\* with a byte count that matches its quantity in 8 bits).
Payload5Large ==
    { encode16(0) \o encode16(n) \o << 1 >> \o << 5 >> : n \in {1969, 2056} }

\* Multiple writes of one coil followed by two data bytes instead of one.
Payload5Long ==
    { encode16(a) \o encode16(1) \o << 1 >> \o << 255, 1 >> : a \in Addrs }

\* Payloads that end before the fields their handler decodes: nothing at
\* all, the address only, and for the multiple write also a header without
\* byte count and a header without the data byte it announces.
Short4 == { << >>, encode16(0) }
Short5 ==
    { << >>, encode16(0) \o encode16(1) }
    \cup { encode16(a) \o encode16(1) \o << 1 >> : a \in Addrs }

CodesReadCoils == { FunctionCode.ReadCoils }
CodesWriteSingleCoil ==
    { FunctionCode.ReadDiscreteInputs, FunctionCode.ReadHoldingRegisters,
      FunctionCode.ReadInputRegisters, FunctionCode.WriteSingleCoil }
CodesWriteMultipleCoils ==
    { FunctionCode.WriteSingleRegister, FunctionCode.ReadExceptionStatus,
      FunctionCode.Diagnostics, FunctionCode.GetCommEventCounter,
      FunctionCode.GetCommEventLog, FunctionCode.WriteMultipleCoils }
CodesCustom ==
    { FunctionCode.WriteMultipleRegisters, FunctionCode.ReportServerId,
      FunctionCode.ReadFileRecord, FunctionCode.WriteFileRecord,
      FunctionCode.MaskWriteRegister, FunctionCode.ReadWriteMultipleRegisters,
      FunctionCode.ReadFifoQueue, FunctionCode.EncapsulatedInterfaceTransport,
      65 }

\* The requests handed to processRequest: every payload under the three
\* codes that have a handler of their own, a few payloads under the codes
\* whose case runs into one of these handlers, one payload under the rest.
Requests ==
    { Pdu(fc, d) : fc \in {FunctionCode.ReadCoils, FunctionCode.WriteSingleCoil},
                   d \in Payload4 \cup Short4 }
    \cup { Pdu(fc, encode16(a) \o encode16(x)) :
             fc \in CodesWriteSingleCoil \ {FunctionCode.WriteSingleCoil},
             a \in Addrs, x \in Words }
    \cup { Pdu(FunctionCode.WriteMultipleCoils, d) :
             d \in { p \in Payload5 : Len(p) = 5 + p[5] }
                   \cup Payload5Large \cup Payload5Long \cup Short5 }
    \cup { Pdu(fc, encode16(a) \o encode16(1) \o << 1, 5 >>) :
             fc \in CodesWriteMultipleCoils \ {FunctionCode.WriteMultipleCoils},
             a \in Addrs }
    \cup { Pdu(fc, encode16(0) \o encode16(1)) : fc \in CodesCustom }

\* ------------------------------------------------------------ operations
\* The last operation: its name, its arguments and what it gave back.
NoCall ==
    [op |-> "init", table |-> "Invalid", address |-> 0, d |-> 0,
     newData |-> DefaultUnit, map |-> [t \in {} |-> DefaultUnit],
     request |-> Pdu(0, << >>),
     ret |-> FALSE, word |-> -1, unit |-> DefaultUnit,
     response |-> Pdu(0, << >>), outcome |-> "returned", oob |-> FALSE,
     dataWritten |-> << >>]

Init ==
    /\ m_discreteInputs = DefaultUnit
    /\ m_coils = DefaultUnit
    /\ m_inputRegisters = DefaultUnit
    /\ m_holdingRegisters = DefaultUnit
    /\ call = NoCall
    /\ pre = [DiscreteInputs |-> DefaultUnit, Coils |-> DefaultUnit,
              InputRegisters |-> DefaultUnit, HoldingRegisters |-> DefaultUnit]

\* The server is called again only once the caller has taken the result of
\* the previous call; a process stopped by an assertion takes no more calls.
Alive == call.op = "init"

\* Store unit u as the table of kind t, leave the other three alone.
Store(t, u) ==
    /\ m_discreteInputs'   = IF t = "DiscreteInputs" THEN u ELSE m_discreteInputs
    /\ m_coils'            = IF t = "Coils" THEN u ELSE m_coils
    /\ m_inputRegisters'   = IF t = "InputRegisters" THEN u ELSE m_inputRegisters
    /\ m_holdingRegisters' = IF t = "HoldingRegisters" THEN u ELSE m_holdingRegisters

NoStore ==
    UNCHANGED << m_discreteInputs, m_coils, m_inputRegisters, m_holdingRegisters >>

SetMap ==
    /\ Alive
    /\ \E map \in Maps :
         LET r == setMap(map) IN
         /\ m_discreteInputs'   = r.DiscreteInputs
         /\ m_coils'            = r.Coils
         /\ m_inputRegisters'   = r.InputRegisters
         /\ m_holdingRegisters' = r.HoldingRegisters
         /\ call' = [NoCall EXCEPT !.op = "setMap", !.map = map, !.ret = r.ret]
    /\ pre' = Tables

ReadElement ==
    /\ Alive
    /\ \E table \in RegisterType, address \in Addrs :
         LET r == data(table, address) IN
         call' = [NoCall EXCEPT !.op = "data", !.table = table,
                                !.address = address,
                                !.ret = r.ret, !.word = r.word]
    /\ NoStore
    /\ pre' = Tables

WriteElement ==
    /\ Alive
    /\ \E table \in RegisterType, address \in Addrs, d \in Words :
         LET r == setData(table, address, d) IN
         /\ Store(table, r.unit)
         /\ call' = [NoCall EXCEPT !.op = "setData", !.table = table,
                                   !.address = address, !.d = d,
                                   !.ret = r.ret]
    /\ pre' = Tables

ReadRange ==
    /\ Alive
    /\ \E newData \in ReadUnits :
         LET r == dataUnit(newData) IN
         call' = [NoCall EXCEPT !.op = "dataUnit", !.newData = newData,
                                !.ret = r.ret, !.unit = r.unit]
    /\ NoStore
    /\ pre' = Tables

WriteRange ==
    /\ Alive
    /\ \E newData \in WriteUnits :
         LET r == setDataUnit(newData) IN
         /\ Store(newData.type, r.unit)
         /\ call' = [NoCall EXCEPT !.op = "setDataUnit", !.newData = newData,
                                   !.ret = r.ret]
    /\ pre' = Tables

\* QModbusServer::processRequest.
ProcessRequest ==
    /\ Alive
    /\ \E request \in Requests :
         \E r \in processRequest(request) :
           /\ Store("Coils", r.coils)
           /\ call' = [NoCall EXCEPT !.op = "processRequest",
                                     !.request = request,
                                     !.response = r.response,
                                     !.outcome = r.outcome, !.oob = r.oob,
                                     !.dataWritten = r.dataWritten]
    /\ pre' = Tables

\* The caller takes the result: nothing of the finished call is kept.
Return ==
    /\ call.op # "init"
    /\ call.outcome = "returned"
    /\ call' = NoCall
    /\ pre' = Tables
    /\ NoStore

Next ==
    \/ Return
    \/ SetMap
    \/ ReadElement
    \/ WriteElement
    \/ ReadRange
    \/ WriteRange
    \/ ProcessRequest

Spec == Init /\ [][Next]_vars

\* ---------------------------------------------------------------- claims

\* C1: a request whose function code is none of Read Coils (0x01), Write
\* Single Coil (0x05) and Write Multiple Coils (0x0F) is answered by the
\* extension hook: an IllegalFunction exception carrying the request's code.
C1_UnhandledCodesGetIllegalFunction ==
    (call.op = "processRequest"
        /\ call.request.functionCode \notin
             { FunctionCode.ReadCoils, FunctionCode.WriteSingleCoil,
               FunctionCode.WriteMultipleCoils })
    => /\ call.outcome = "returned"
       /\ call.response =
            Pdu(call.request.functionCode + 128,
                << ExceptionCode.IllegalFunction >>)

\* C2: a request whose function code is not a write (Write Single Coil, Write
\* Multiple Coils) leaves all four tables exactly as they were.
C2_NonWriteRequestsKeepTables ==
    (call.op = "processRequest"
        /\ call.request.functionCode \notin
             { FunctionCode.WriteSingleCoil, FunctionCode.WriteMultipleCoils })
    => Tables = pre

\* C3: on a configured table and an address inside it, setData(table,
\* address, d) returns true and a following data(table, address) returns
\* true with the value d.
C3_WriteThenReadElement ==
    (call.op = "setData" /\ call.table \in ValidTypes
        /\ isValid(pre[call.table])
        /\ pre[call.table].startAddress <= call.address
        /\ call.address < pre[call.table].startAddress
                            + Len(pre[call.table].values))
    => /\ call.ret
       /\ data(call.table, call.address) = [ret |-> TRUE, word |-> call.d]

\* C4: with an address outside the table (below its start address, at or
\* past its end), an Invalid kind or an unconfigured table, data() and
\* setData() return false and leave all four tables unchanged.
C4_OutOfBoundsElementFails ==
    (call.op \in {"data", "setData"}
        /\ IF call.table = "Invalid" THEN TRUE
           ELSE \/ ~isValid(pre[call.table])
                \/ call.address < pre[call.table].startAddress
                \/ call.address >= pre[call.table].startAddress
                                     + Len(pre[call.table].values))
    => /\ ~call.ret
       /\ call.word = -1
       /\ Tables = pre

\* C4 witness: setData at the first address past the end of a configured,
\* non-empty table was refused.
C4_Witness ==
    /\ call.op = "setData"
    /\ call.table \in ValidTypes
    /\ isValid(pre[call.table])
    /\ Len(pre[call.table].values) > 0
    /\ call.address = pre[call.table].startAddress
                        + Len(pre[call.table].values)
    /\ call.d # 0
    /\ ~call.ret

\* C5: setData(newData) is all-or-nothing. It fails whenever the range is
\* not fully inside the table or the kind is Invalid or unconfigured; when
\* it fails every table is unchanged; when it succeeds the word at each
\* logical address startAddress + i is values[i] and every other word of
\* every table is unchanged.
C5_WriteRangeAllOrNothing ==
    call.op = "setDataUnit" =>
    LET nd == call.newData
        t  == nd.type
        n  == Len(nd.values)
        inside ==
            /\ t \in ValidTypes
            /\ isValid(pre[t])
            /\ pre[t].startAddress <= nd.startAddress
            /\ nd.startAddress + n - 1
                 <= pre[t].startAddress + Len(pre[t].values) - 1
    IN  /\ ~inside => ~call.ret
        /\ ~call.ret => Tables = pre
        /\ call.ret =>
             /\ t \in ValidTypes
             /\ \A o \in ValidTypes \ {t} : Tables[o] = pre[o]
             /\ Tables[t].type = pre[t].type
             /\ Tables[t].startAddress = pre[t].startAddress
             /\ Len(Tables[t].values) = Len(pre[t].values)
             /\ \A i \in 1..Len(pre[t].values) :
                  LET a == pre[t].startAddress + i - 1 IN
                  Tables[t].values[i] =
                     IF nd.startAddress <= a /\ a < nd.startAddress + n
                     THEN nd.values[a - nd.startAddress + 1]
                     ELSE pre[t].values[i]

\* C6: data(newData) with a start address >= 0 (and at least one value
\* asked for) succeeds exactly when the range lies within the table, and
\* then word i of the result is the word stored at logical address
\* startAddress + i, that is values[startAddress + i - table.startAddress].
C6_ReadRangeReturnsLogicalWords ==
    (call.op = "dataUnit" /\ call.newData.type \in ValidTypes
        /\ call.newData.startAddress >= 0 /\ Len(call.newData.values) >= 1)
    => LET nd  == call.newData
           n   == Len(nd.values)
           cur == pre[nd.type]
           inside ==
               /\ cur.startAddress <= nd.startAddress
               /\ nd.startAddress + n - 1
                    <= cur.startAddress + Len(cur.values) - 1
       IN  /\ call.ret = inside
           /\ call.ret =>
                /\ Len(call.unit.values) = n
                /\ \A i \in 0..(n - 1) :
                     call.unit.values[i + 1] =
                        cur.values[nd.startAddress + i - cur.startAddress + 1]

\* C7: data(newData) with a valid kind and a negative start address
\* succeeds and hands back the whole table of that kind: its start address,
\* its full length and its current values, whatever count was asked for;
\* no table changes.
C7_NegativeStartReturnsWholeTable ==
    (call.op = "dataUnit" /\ call.newData.type \in ValidTypes
        /\ call.newData.startAddress < 0)
    => /\ call.ret
       /\ call.unit.startAddress = pre[call.newData.type].startAddress
       /\ Len(call.unit.values) = Len(pre[call.newData.type].values)
       /\ call.unit.values = pre[call.newData.type].values
       /\ Tables = pre

\* C7 witness: the whole table came back with a value written earlier in
\* it, for a request that asked for a different number of values.
C7_Witness ==
    /\ call.op = "dataUnit"
    /\ call.newData.type \in ValidTypes
    /\ call.newData.startAddress < 0
    /\ call.ret
    /\ Len(call.unit.values) > Len(call.newData.values)
    /\ \E i \in 1..Len(call.unit.values) : call.unit.values[i] # 0

C9_ReadCoilsPacksLogicalCoils ==
    (call.op = "processRequest"
        /\ call.request.functionCode = FunctionCode.ReadCoils
        /\ Len(call.request.data) = 4
        /\ isValid(pre.Coils)
        /\ call.outcome = "returned" /\ ~isException(call.response))
    => LET address == decode16(call.request.data, 0)
           n       == decode16(call.request.data, 2)
           bc      == (n + 7) \div 8
           coils   == pre.Coils
           state(a) ==
               IF coils.startAddress <= a
                    /\ a < coils.startAddress + Len(coils.values)
               THEN (IF coils.values[a - coils.startAddress + 1] # 0
                     THEN 1 ELSE 0)
               ELSE -1
       IN  /\ call.response.functionCode = call.request.functionCode
           /\ Len(call.response.data) = 1 + bc
           /\ call.response.data[1] = bc
           /\ \A j \in 0..(bc - 1), k \in 0..7 :
                bitOf(call.response.data[j + 2], k) =
                   IF 8 * j + k < n THEN state(address + 8 * j + k) ELSE 0

\* C10: after a successful Write Single Coil(address, value) on an address
\* of the configured coils table, the coil at logical address `address` holds
\* the boolean value # 0 -- the stored word is 1 for 0xFF00 and 0 for 0x0000,
\* and data(Coils, address) returns it -- and the response echoes
\* (address, value) under the request's function code.
C10_WriteSingleCoilStoresBoolean ==
    (call.op = "processRequest"
        /\ call.request.functionCode = FunctionCode.WriteSingleCoil
        /\ Len(call.request.data) = 4
        /\ isValid(pre.Coils)
        /\ pre.Coils.startAddress <= decode16(call.request.data, 0)
        /\ decode16(call.request.data, 0)
             < pre.Coils.startAddress + Len(pre.Coils.values)
        /\ call.outcome = "returned" /\ ~isException(call.response))
    => LET address  == decode16(call.request.data, 0)
           val      == decode16(call.request.data, 2)
           expected == IF val # 0 THEN 1 ELSE 0
       IN  /\ m_coils.startAddress <= address
           /\ address < m_coils.startAddress + Len(m_coils.values)
           /\ m_coils.values[address - m_coils.startAddress + 1] = expected
           /\ data("Coils", address) = [ret |-> TRUE, word |-> expected]
           /\ call.response =
                Pdu(call.request.functionCode,
                    encode16(address) \o encode16(val))

\* C11: Write Single Coil with a legal value (0x0000 or 0xFF00) and an
\* address outside the configured coils table -- below startAddress, or at or
\* past startAddress + valueCount, the first address past the end included --
\* returns an IllegalDataAddress exception and leaves the coils table
\* unchanged.
C11_WriteSingleCoilOutsideTable ==
    (call.op = "processRequest"
        /\ call.request.functionCode = FunctionCode.WriteSingleCoil
        /\ Len(call.request.data) = 4
        /\ decode16(call.request.data, 2) \in {0, 65280}
        /\ isValid(pre.Coils)
        /\ LET address == decode16(call.request.data, 0)
           IN  \/ address < pre.Coils.startAddress
               \/ address >= pre.Coils.startAddress + Len(pre.Coils.values))
    => /\ call.outcome = "returned"
       /\ call.response =
            QModbusExceptionResponse(FunctionCode.WriteSingleCoil,
                                     ExceptionCode.IllegalDataAddress)
       /\ m_coils = pre.Coils

\* C12: after a successful Write Multiple Coils(address, count, byteCount,
\* bytes) on a configured coils table, for every i in 0..count-1 the coil at
\* logical address address + i is on exactly when bit (i mod 8) of payload
\* byte (i div 8) is 1, whatever the table's startAddress, and the response
\* echoes (address, count) under the request's function code.
C12_WriteMultipleCoilsStoresBits ==
    (call.op = "processRequest"
        /\ call.request.functionCode = FunctionCode.WriteMultipleCoils
        /\ Len(call.request.data) >= 5
        /\ Len(call.request.data) = 5 + call.request.data[5]
        /\ isValid(pre.Coils)
        /\ call.outcome = "returned" /\ ~isException(call.response))
    => LET address == decode16(call.request.data, 0)
           n       == decode16(call.request.data, 2)
           bytes   == mid(call.request.data, 5, call.request.data[5])
       IN  /\ \A i \in 0..(n - 1) :
                /\ m_coils.startAddress <= address + i
                /\ address + i < m_coils.startAddress + Len(m_coils.values)
                /\ (m_coils.values[address + i - m_coils.startAddress + 1] # 0)
                     = (bitOf(bytes[(i \div 8) + 1], i % 8) = 1)
           /\ call.response =
                Pdu(call.request.functionCode,
                    encode16(address) \o encode16(n))

\* C13: Write Multiple Coils with count = 0, count > 1968 or
\* byteCount # ceil(count / 8) returns an IllegalDataValue exception and
\* leaves the coils table unchanged.
C13_WriteMultipleCoilsIllegalValue ==
    (call.op = "processRequest"
        /\ call.request.functionCode = FunctionCode.WriteMultipleCoils
        /\ Len(call.request.data) >= 5
        /\ LET n  == decode16(call.request.data, 2)
               bc == call.request.data[5]
           IN  n = 0 \/ n > 1968 \/ bc # (n + 7) \div 8)
    => /\ call.outcome = "returned"
       /\ call.response =
            QModbusExceptionResponse(FunctionCode.WriteMultipleCoils,
                                     ExceptionCode.IllegalDataValue)
       /\ m_coils = pre.Coils

\* A count past 1968 whose byte count agrees with ceil(count / 8) in 8 bits
\* was rejected with IllegalDataValue.
C13_Witness ==
    /\ call.op = "processRequest"
    /\ call.request.functionCode = FunctionCode.WriteMultipleCoils
    /\ Len(call.request.data) >= 5
    /\ decode16(call.request.data, 2) > 1968
    /\ call.request.data[5] = U8((decode16(call.request.data, 2) + 7) \div 8)
    /\ call.response =
         QModbusExceptionResponse(FunctionCode.WriteMultipleCoils,
                                  ExceptionCode.IllegalDataValue)
    /\ m_coils = pre.Coils

\* C14: Read Coils with count = 0 or count > 2000 returns an
\* IllegalDataValue exception of exactly two bytes -- the function code 0x01
\* with bit 7 set and the exception code 3 -- whatever the address and the
\* coils table are, so ahead of the address check; no table changes.
C14_ReadCoilsIllegalValue ==
    (call.op = "processRequest"
        /\ call.request.functionCode = FunctionCode.ReadCoils
        /\ Len(call.request.data) = 4
        /\ LET n == decode16(call.request.data, 2) IN n = 0 \/ n > 2000)
    => /\ call.outcome = "returned"
       /\ call.response.functionCode = 129
       /\ call.response.data = << 3 >>
       /\ call.response =
            QModbusExceptionResponse(FunctionCode.ReadCoils,
                                     ExceptionCode.IllegalDataValue)
       /\ Tables = pre

\* A Read Coils of more than 2000 coils from an address past the end of a
\* configured coils table was answered with IllegalDataValue.
C14_Witness ==
    /\ call.op = "processRequest"
    /\ call.request.functionCode = FunctionCode.ReadCoils
    /\ Len(call.request.data) = 4
    /\ decode16(call.request.data, 2) > 2000
    /\ isValid(pre.Coils)
    /\ decode16(call.request.data, 0)
         >= pre.Coils.startAddress + Len(pre.Coils.values)
    /\ call.response = Pdu(129, << 3 >>)

\* C15: a Read Coils or Write Multiple Coils with a legal count (and the
\* matching byte count) is answered with an IllegalDataAddress exception
\* exactly when [address, address + count - 1] is not inside
\* [startAddress, startAddress + valueCount - 1] of the coils table, and a
\* Write Multiple Coils rejected this way leaves the coils table unchanged.
C15_IllegalAddressExactlyOutside ==
    (call.op = "processRequest"
        /\ \/ /\ call.request.functionCode = FunctionCode.ReadCoils
              /\ Len(call.request.data) = 4
              /\ decode16(call.request.data, 2) \in 1..2000
           \/ /\ call.request.functionCode = FunctionCode.WriteMultipleCoils
              /\ Len(call.request.data) >= 5
              /\ decode16(call.request.data, 2) \in 1..1968
              /\ call.request.data[5]
                   = (decode16(call.request.data, 2) + 7) \div 8)
    => LET address == decode16(call.request.data, 0)
           n       == decode16(call.request.data, 2)
           inside  == /\ pre.Coils.startAddress <= address
                      /\ address + n
                           <= pre.Coils.startAddress + Len(pre.Coils.values)
           ida     == /\ call.outcome = "returned"
                      /\ call.response =
                           QModbusExceptionResponse(call.request.functionCode,
                               ExceptionCode.IllegalDataAddress)
       IN  /\ ida <=> ~inside
           /\ ida => m_coils = pre.Coils

\* C16: on a configured coils table and for an in-range address and a legal
\* count, (a) feeding the bytes of a successful Read Coils(address, count) to
\* Write Multiple Coils(address, count, ceil(count / 8), bytes) succeeds and
\* leaves every coil on or off as it was, and (b) a Read Coils of the range
\* of a successful Write Multiple Coils returns the written bits, with the
\* unused trailing bits of the last byte zero.
C16_ReadWriteRoundTrip ==
    (call.op = "processRequest"
        /\ call.request.functionCode
             \in {FunctionCode.ReadCoils, FunctionCode.WriteMultipleCoils}
        /\ Len(call.request.data) >= 4
        /\ (call.request.functionCode = FunctionCode.WriteMultipleCoils
              => /\ Len(call.request.data) >= 5
                 /\ Len(call.request.data) = 5 + call.request.data[5])
        /\ isValid(pre.Coils)
        /\ pre.Coils.startAddress <= decode16(call.request.data, 0)
        /\ decode16(call.request.data, 0) + decode16(call.request.data, 2)
             <= pre.Coils.startAddress + Len(pre.Coils.values)
        /\ call.outcome = "returned" /\ ~isException(call.response))
    => LET address == decode16(call.request.data, 0)
           n       == decode16(call.request.data, 2)
           bc      == (n + 7) \div 8
           on(u)   == [i \in 1..Len(u.values) |-> u.values[i] # 0]
       IN  IF call.request.functionCode = FunctionCode.ReadCoils
           THEN \A w \in processWriteMultipleCoilsRequest(
                            Pdu(FunctionCode.WriteMultipleCoils,
                                encode16(address) \o encode16(n)
                                   \o call.response.data)) :
                   /\ w.outcome = "returned" /\ ~w.oob
                   /\ ~isException(w.response)
                   /\ w.coils.startAddress = m_coils.startAddress
                   /\ on(w.coils) = on(m_coils)
           ELSE LET bytes == mid(call.request.data, 5, bc)
                    written ==
                        [j \in 1..bc |->
                            to_ulong([k \in 1..8 |->
                                IF 8 * (j - 1) + (k - 1) < n
                                THEN bitOf(bytes[j], k - 1) ELSE 0])]
                IN  \A r \in processReadCoilsRequest(
                                Pdu(FunctionCode.ReadCoils,
                                    encode16(address) \o encode16(n))) :
                       /\ r.outcome = "returned" /\ ~r.oob
                       /\ r.response =
                            QModbusResponseBytes(FunctionCode.ReadCoils,
                                                 bc, written)

\* C17: a Write Single Coil or Write Multiple Coils that succeeds on the
\* configured coils table emits dataWritten exactly once, naming the Coils
\* table, the first written address and the number of fields written; a
\* request answered with an exception emits nothing.
C17_DataWrittenOncePerWrite ==
    (call.op = "processRequest"
        /\ call.request.functionCode
             \in {FunctionCode.WriteSingleCoil, FunctionCode.WriteMultipleCoils}
        /\ Len(call.request.data) >= 4
        /\ (call.request.functionCode = FunctionCode.WriteMultipleCoils
              => /\ Len(call.request.data) >= 5
                 /\ Len(call.request.data) = 5 + call.request.data[5])
        /\ isValid(pre.Coils)
        /\ call.outcome = "returned" /\ ~call.oob)
    => IF isException(call.response)
       THEN call.dataWritten = << >>
       ELSE call.dataWritten =
              << [table   |-> "Coils",
                  address |-> decode16(call.request.data, 0),
                  size    |-> IF call.request.functionCode
                                   = FunctionCode.WriteSingleCoil
                              THEN 1
                              ELSE decode16(call.request.data, 2)] >>

\* C18: processRequest is total: for a request with a complete payload on a
\* server whose coils table is configured it returns, without indexing a
\* table outside its stored values, either a success response under the
\* request's function code or an exception response under that code with
\* bit 7 set and one of IllegalFunction, IllegalDataAddress, IllegalDataValue.
C18_DispatchTotal ==
    (call.op = "processRequest"
        /\ isValid(pre.Coils)
        /\ Len(call.request.data) = 4)
    => /\ call.outcome = "returned"
       /\ ~call.oob
       /\ \/ call.response.functionCode = call.request.functionCode
          \/ \E ec \in {ExceptionCode.IllegalFunction,
                         ExceptionCode.IllegalDataAddress,
                         ExceptionCode.IllegalDataValue} :
                call.response =
                    Pdu(call.request.functionCode + 128, << ec >>)

\* C19: a Read Coils or Write Single Coil with fewer than 4 payload bytes,
\* or a Write Multiple Coils with fewer than 5 header bytes or fewer data
\* bytes than its byte count, is not executed: the call returns, touches
\* nothing outside the stored values and leaves every table unchanged
\* (stated for a coils table that starts at 0 and holds every address an
\* undecoded field can take).
C19_ShortPayloadNotExecuted ==
    (call.op = "processRequest"
        /\ \/ /\ call.request.functionCode
                   \in {FunctionCode.ReadCoils, FunctionCode.WriteSingleCoil}
              /\ Len(call.request.data) < 4
           \/ /\ call.request.functionCode = FunctionCode.WriteMultipleCoils
              /\ \/ Len(call.request.data) < 5
                 \/ Len(call.request.data) < 5 + call.request.data[5]
        /\ isValid(pre.Coils)
        /\ pre.Coils.startAddress = 0
        /\ \A a \in Undecoded : a < Len(pre.Coils.values))
    => /\ call.outcome = "returned"
       /\ ~call.oob
       /\ Tables = pre

\* C20: a Write Multiple Coils that passes validation on a coils table
\* starting at 0 changes only the coils at logical addresses
\* address .. address + count - 1: every other coil and every word of the
\* other three tables keeps its value, however many data bytes follow the
\* byte count field.
C20_WriteMultipleCoilsFrame ==
    (call.op = "processRequest"
        /\ call.request.functionCode = FunctionCode.WriteMultipleCoils
        /\ Len(call.request.data) >= 5
        /\ Len(call.request.data) >= 5 + call.request.data[5]
        /\ isValid(pre.Coils)
        /\ pre.Coils.startAddress = 0
        /\ call.outcome = "returned" /\ ~isException(call.response))
    => LET address == decode16(call.request.data, 0)
           n       == decode16(call.request.data, 2)
       IN  /\ m_discreteInputs = pre.DiscreteInputs
           /\ m_inputRegisters = pre.InputRegisters
           /\ m_holdingRegisters = pre.HoldingRegisters
           /\ m_coils.type = pre.Coils.type
           /\ m_coils.startAddress = pre.Coils.startAddress
           /\ Len(m_coils.values) = Len(pre.Coils.values)
           /\ \A i \in 1..Len(pre.Coils.values) :
                LET a == pre.Coils.startAddress + i - 1
                IN  (a < address \/ a >= address + n)
                        => m_coils.values[i] = pre.Coils.values[i]

\* C21: table extents change under setMap only: after a call of any other
\* operation -- processRequest, setData and data in both forms -- each of the
\* four tables has the kind, the startAddress, the valueCount and the number
\* of stored values it had before the call (pre holds the tables as they
\* were when the call began), and the number of stored values equals the
\* valueCount.
C21_ExtentsChangeOnlyBySetMap ==
    LET same(now, before) ==
            /\ now.type = before.type
            /\ now.startAddress = before.startAddress
            /\ valueCount(now) = valueCount(before)
            /\ Len(now.values) = valueCount(now)
    IN  call.op # "setMap"
            => /\ same(m_discreteInputs, pre.DiscreteInputs)
               /\ same(m_coils, pre.Coils)
               /\ same(m_inputRegisters, pre.InputRegisters)
               /\ same(m_holdingRegisters, pre.HoldingRegisters)

\* A request or a range write has changed the words of a configured table
\* and the table has the extent it had before.
C21_Witness ==
    /\ call.op \in {"processRequest", "setDataUnit"}
    /\ \E t \in ValidTypes :
         /\ isValid(pre[t])
         /\ Tables[t].values # pre[t].values
         /\ Tables[t].type = pre[t].type
         /\ Tables[t].startAddress = pre[t].startAddress
         /\ Len(Tables[t].values) = Len(pre[t].values)

====
